---- MODULE Spec2Model ----
(***************************************************************************)
(* Model of server/controllers/moviesController.js: the collection         *)
(* handlers (add / update status / delete / get) of one user, run by       *)
(* concurrent requests, and the genre recommendation loop.                 *)
(*                                                                         *)
(* One user is modelled (every handler keys its document on req.user._id). *)
(* A saved movie is the record [id, title, status]; poster_path and genres *)
(* of a saved movie are carried by the code but never read by it, so they  *)
(* are left out.  A catalog movie is its external id.                      *)
(***************************************************************************)
EXTENDS Integers, Sequences, FiniteSets, TLC

\* ---------------------------------------------------------------- bounds
NumIds == 2          \* external ids a client may send
NumTitles == 2       \* titles a client may send
MaxRequests == 4     \* requests the user sends in one run

Procs == {1, 2}      \* two requests of the user may be in flight at once
Ids == 1..NumIds
Titles == 1..NumTitles
Statuses == {"watched"}     \* req.body.status of an update
DefaultStatus == "none"     \* the status of a movie that was just pushed

\* ------------------------------------------------------ program constants
maxMovies == 20
GenreLimit == 20
InitialPerGenre == 10
WidenedPerGenre == 5
ResetPerGenre == 10

VARIABLES
  doc,        \* the user's stored collection document: [exists, movies]
  pc,         \* pc[p]: where request p stands ("idle" or awaiting its save)
  req,        \* req[p]: the body of p's request while it is in flight
  snap,       \* snap[p]: the movies p's findOne returned
  movieCol,   \* movieCol[p]: p's in-memory document after its change
  resp,       \* the last response sent: [op, id, code]
  started,    \* the number of requests received so far
  overwrote   \* history: [stale, movies]; stale when the last save replaced a
              \* document its request had not read, movies being what it replaced

VARIABLES
  catalog,            \* catalog[g]: the results the catalog now returns for genre g
  rpc,                \* the recommendation request: "idle", "await", "find", "done"
  userGenres,         \* req.user.genres of the recommendation request
  genres,             \* the working genre list
  recommendedMovies,  \* the accumulated result
  moviesPerGenre,
  movies,             \* the candidates of this iteration, once the calls returned
  rresp,              \* the response of the recommendation request
  calls               \* history: discovery calls issued by this request

collVars == <<doc, pc, req, snap, movieCol, resp, started, overwrote>>
recVars == <<catalog, rpc, userGenres, genres, recommendedMovies, moviesPerGenre,
             movies, rresp, calls>>
vars == <<collVars, recVars>>

NoDoc == [exists |-> FALSE, movies |-> <<>>]
NoReq == [op |-> "none", id |-> 0, title |-> 0, status |-> DefaultStatus]

\* ------------------------------------------------------- collection store
\* movieModel.findOne({ user: _id }): the stored document, or null.
findOne == doc

\* movieCol.save(): the whole document replaces the stored one.
save(list) == [exists |-> TRUE, movies |-> list]

\* getMovieCollectionForUser throws when findOne returns null.
getMovieCollectionForUser(d) ==
  IF d.exists THEN [ok |-> TRUE, movies |-> d.movies]
  ELSE [ok |-> FALSE, movies |-> <<>>]

\* ------------------------------------------------------- handler helpers
\* Mutant: the duplicate check compares the external id, not the title.
alreadySavedById(list, id, title) ==
  \E i \in 1..Len(list) : list[i].id = id

\* Mutant: the duplicate check wants the id and the title to match.
alreadySavedSameMovie(list, id, title) ==
  \E i \in 1..Len(list) : list[i].id = id /\ list[i].title = title

\* movieCol.movies.find((movie) => movie.title === title)
alreadySaved(list, id, title) ==
  \E i \in 1..Len(list) : list[i].title = title

\* movieCol.movies.push({ id, poster_path, title, genres })
pushMovie(list, id, title) ==
  Append(list, [id |-> id, title |-> title, status |-> DefaultStatus])

\* Mutant: the lookup compares the title with the requested id.
findIndexByTitle(list, movieId) ==
  IF \E i \in 1..Len(list) : list[i].title = movieId
  THEN CHOOSE i \in 1..Len(list) :
         /\ list[i].title = movieId
         /\ \A j \in 1..(i - 1) : list[j].title # movieId
  ELSE 0

\* movies.findIndex((movie) => movie.id === movieId): 0 stands for -1
findIndex(list, movieId) ==
  IF \E i \in 1..Len(list) : list[i].id = movieId
  THEN CHOOSE i \in 1..Len(list) :
         /\ list[i].id = movieId
         /\ \A j \in 1..(i - 1) : list[j].id # movieId
  ELSE 0

\* movie.status = status, on the movie that find returned
setStatus(list, i, status) == [list EXCEPT ![i].status = status]

\* Mutant: splice(movieIndex), without the count, drops the tail as well.
spliceTail(list, i) == SubSeq(list, 1, i - 1)

\* movieCol.movies.splice(movieIndex, 1)
splice(list, i) ==
  [k \in 1..(Len(list) - 1) |-> IF k < i THEN list[k] ELSE list[k + 1]]

\* ------------------------------------------------- recommendation helpers
\* A user's genre is the JSON string of an object with an id; "" is an empty
\* (falsy) entry and "null" the null that the loop pushes.
Genres == {"28", "35"}
Repeat(g, n) == [i \in 1..n |-> g]
GenreLists ==
  { <<>>, <<"">>, <<"28">>, <<"", "35">>, <<"28", "35">>, <<"28", "35", "28">>,
    Repeat("28", 19), Repeat("28", 20) }

\* response.data.results of a discovery call: catalog ids in popularity order
Page(first, n) == [i \in 1..n |-> first + i - 1]
Pages == { <<>>, Page(1, 10), Page(11, 12) }

\* req.user.genres.filter(Boolean)
filterBoolean(raw) == SelectSeq(raw, LAMBDA g : g # "")

\* Array.prototype.slice(0, n)
slice(s, n) == SubSeq(s, 1, IF Len(s) < n THEN Len(s) ELSE n)

\* Array.prototype.includes / find by id
includes(s, x) == \E i \in 1..Len(s) : s[i] = x

\* recommendedMovies.length < maxMovies && genres.length < 20
loopCondition(rec, gs) == Len(rec) < maxMovies /\ Len(gs) < GenreLimit

\* JSON.parse(genre).id throws a TypeError on the null entry (JSON.parse(null)
\* is null); genres.map stops there, inside the handler's try block.
parseThrows(gs) == includes(gs, "null")

\* the axios.get calls genres.map issues before it ends or throws
issuedCalls(gs) ==
  IF parseThrows(gs)
  THEN (CHOOSE i \in 1..Len(gs) :
          gs[i] = "null" /\ \A j \in 1..(i - 1) : gs[j] # "null") - 1
  ELSE Len(gs)

\* moviesResponses.flatMap((response) => response.data.results.slice(0, n))
RECURSIVE flatMapResults(_, _)
flatMapResults(gs, n) ==
  IF gs = <<>> THEN <<>>
  ELSE slice(catalog[Head(gs)], n) \o flatMapResults(Tail(gs), n)

\* userMovies ? userMovies.movies.map((movie) => movie.id) : []
userMovieIds(d) ==
  IF d.exists THEN [i \in 1..Len(d.movies) |-> d.movies[i].id] ELSE <<>>

\* movies.filter(!userMovieIds.includes(id) && !recommendedMovies.find(id))
filterMovies(ms, ids, rec) ==
  SelectSeq(ms, LAMBDA m : ~includes(ids, m) /\ ~includes(rec, m))

\* [...recommendedMovies, ...filteredMovies].slice(0, maxMovies)
accumulate(rec, filtered) == slice(rec \o filtered, maxMovies)

\* Mutant: the genre list is not widened.
pushNothing(gs) == gs

\* genres.push(null)
pushNull(gs) == Append(gs, "null")

Init ==
  /\ catalog = [g \in Genres |-> Page(1, 10)]
  /\ rpc = "idle"
  /\ userGenres = <<>>
  /\ genres = <<>>
  /\ recommendedMovies = <<>>
  /\ moviesPerGenre = InitialPerGenre
  /\ movies = <<>>
  /\ rresp = "none"
  /\ calls = 0
  /\ doc = NoDoc
  /\ pc = [p \in Procs |-> "idle"]
  /\ req = [p \in Procs |-> NoReq]
  /\ snap = [p \in Procs |-> <<>>]
  /\ movieCol = [p \in Procs |-> <<>>]
  /\ resp = [op |-> "none", id |-> 0, code |-> "none"]
  /\ started = 0
  /\ overwrote = [stale |-> FALSE, movies |-> <<>>]

\* A request arrives at the idle slot p.
Receive(p) ==
  /\ pc[p] = "idle"
  /\ started < MaxRequests
  /\ started' = started + 1

\* A response ends the request: its in-memory document is dropped.
Respond(p, r, code) ==
  /\ pc' = [pc EXCEPT ![p] = "idle"]
  /\ req' = [req EXCEPT ![p] = NoReq]
  /\ resp' = [op |-> r.op, id |-> r.id, code |-> code]
  /\ snap' = [snap EXCEPT ![p] = <<>>]
  /\ movieCol' = [movieCol EXCEPT ![p] = <<>>]

\* The handler goes on to await movieCol.save().
AwaitSave(p, r, at, read, changed) ==
  /\ pc' = [pc EXCEPT ![p] = at]
  /\ req' = [req EXCEPT ![p] = r]
  /\ resp' = resp
  /\ snap' = [snap EXCEPT ![p] = read]
  /\ movieCol' = [movieCol EXCEPT ![p] = changed]

\* addToMovieCollection, up to its await of save()
AddFind(p, id, title) ==
  LET r == [op |-> "add", id |-> id, title |-> title, status |-> DefaultStatus]
      found == findOne
      list == IF found.exists THEN found.movies ELSE <<>>
  IN /\ Receive(p)
     /\ IF alreadySaved(list, id, title)
        THEN Respond(p, r, "400")
        ELSE AwaitSave(p, r, "add_save", list, pushMovie(list, id, title))
     /\ UNCHANGED <<doc, overwrote, recVars>>

\* the save() of any of the three handlers, and the success response
Save(p) ==
  /\ pc[p] \in {"add_save", "upd_save", "del_save"}
  /\ doc' = save(movieCol[p])
  /\ overwrote' = IF doc.movies # snap[p]
                  THEN [stale |-> TRUE, movies |-> doc.movies]
                  ELSE [stale |-> FALSE, movies |-> <<>>]
  /\ started' = started
  /\ Respond(p, req[p], "200")
  /\ UNCHANGED recVars

\* updateMovieStatus, up to its await of save()
UpdFind(p, movieId, status) ==
  LET r == [op |-> "update", id |-> movieId, title |-> 0, status |-> status]
      col == getMovieCollectionForUser(findOne)
      i == findIndex(col.movies, movieId)
  IN /\ Receive(p)
     /\ IF ~col.ok THEN Respond(p, r, "error")
        ELSE IF i = 0 THEN Respond(p, r, "404")
        ELSE AwaitSave(p, r, "upd_save", col.movies, setStatus(col.movies, i, status))
     /\ UNCHANGED <<doc, overwrote, recVars>>

\* deleteMovieFromCollection, up to its await of save()
DelFind(p, movieId) ==
  LET r == [op |-> "delete", id |-> movieId, title |-> 0, status |-> DefaultStatus]
      col == getMovieCollectionForUser(findOne)
      i == findIndex(col.movies, movieId)
  IN /\ Receive(p)
     /\ IF ~col.ok THEN Respond(p, r, "error")
        ELSE IF i = 0 THEN Respond(p, r, "404")
        ELSE AwaitSave(p, r, "del_save", col.movies, splice(col.movies, i))
     /\ UNCHANGED <<doc, overwrote, recVars>>

\* getMovieCollection
Get(p) ==
  LET r == [op |-> "get", id |-> 0, title |-> 0, status |-> DefaultStatus]
  IN /\ Receive(p)
     /\ Respond(p, r, IF getMovieCollectionForUser(findOne).ok THEN "200" ELSE "error")
     /\ UNCHANGED <<doc, overwrote, recVars>>

Next ==
  \E p \in Procs :
    \/ \E id \in Ids, t \in Titles : AddFind(p, id, t)
    \/ \E id \in Ids, s \in Statuses : UpdFind(p, id, s)
    \/ \E id \in Ids : DelFind(p, id)
    \/ Get(p)
    \/ Save(p)

\* The collection handlers under concurrent requests of the user.
Spec == Init /\ [][Next]_vars

\* ------------------------------------------------- recommendMoviesByGenre
\* The head of the while loop with the accumulated list rec and the genre list
\* gs: the response when the loop ends, the TypeError of genres.map, or the
\* discovery calls issued and awaited.
LoopHead(rec, gs) ==
  IF ~loopCondition(rec, gs)
  THEN /\ rpc' = "done"
       /\ rresp' = IF Len(rec) = 0 THEN "400" ELSE "200"
       /\ calls' = calls
  ELSE /\ calls' = calls + issuedCalls(gs)
       /\ IF parseThrows(gs)
          THEN rpc' = "done" /\ rresp' = "error"
          ELSE rpc' = "await" /\ rresp' = "none"

\* The request arrives: the declarations before the loop, then the loop head.
\* One recommendation request is followed: the handler keeps nothing from one
\* request to the next.
RecStart(raw) ==
  /\ rpc = "idle"
  /\ started < MaxRequests
  /\ started' = started + 1
  /\ userGenres' = raw
  /\ genres' = filterBoolean(raw)
  /\ recommendedMovies' = <<>>
  /\ moviesPerGenre' = InitialPerGenre
  /\ movies' = <<>>
  /\ LoopHead(<<>>, filterBoolean(raw))
  /\ UNCHANGED <<catalog, doc, pc, req, snap, movieCol, resp, overwrote>>

\* await Promise.all(moviesPromises) returns; movies is computed.
RecFetch ==
  /\ rpc = "await"
  /\ movies' = flatMapResults(genres, moviesPerGenre)
  /\ rpc' = "find"
  /\ UNCHANGED <<catalog, userGenres, genres, recommendedMovies, moviesPerGenre,
                 rresp, calls, collVars>>

\* await movieModel.findOne returns; the rest of the loop body runs, then the
\* loop head, with no await in between.
RecFilter ==
  LET ids == userMovieIds(findOne)
      filteredMovies == filterMovies(movies, ids, recommendedMovies)
      rec == accumulate(recommendedMovies, filteredMovies)
      gs == IF Len(filteredMovies) = 0 THEN pushNull(genres) ELSE genres
  IN /\ rpc = "find"
     /\ recommendedMovies' = rec
     /\ genres' = gs
     /\ moviesPerGenre' = IF Len(filteredMovies) = 0 THEN WidenedPerGenre
                          ELSE ResetPerGenre
     /\ movies' = <<>>
     /\ LoopHead(rec, gs)
     /\ UNCHANGED <<catalog, userGenres, collVars>>

\* The catalog's answer for a genre changes (popularity moves). The request
\* reads the catalog only when its awaited calls return, so every change is
\* taken while the calls are awaited.
CatalogChange(g, page) ==
  /\ rpc = "await"
  /\ catalog[g] # page
  /\ catalog' = [catalog EXCEPT ![g] = page]
  /\ UNCHANGED <<rpc, userGenres, genres, recommendedMovies, moviesPerGenre,
                 movies, rresp, calls, collVars>>

\* Add and delete requests of the user running beside the recommendation, for
\* a movie of each catalog page (each sent under its own title: the loop reads
\* only the ids).
InterleavedIds == {1, 11}
Interleaved ==
  \/ \E id \in InterleavedIds : AddFind(1, id, id)
  \/ \E id \in InterleavedIds : DelFind(1, id)
  \/ Save(1)

RecNext ==
  \/ \E raw \in GenreLists : RecStart(raw)
  \/ RecFetch
  \/ RecFilter
  \/ \E g \in Genres, page \in Pages : CatalogChange(g, page)
  \/ Interleaved

\* The recommendation request beside catalog changes and collection requests.
RecSpec == Init /\ [][RecNext]_vars

\* Every awaited call of the recommendation request returns.
RecFairSpec == RecSpec /\ WF_vars(RecFetch) /\ WF_vars(RecFilter)

\* The recommendation request alone, over any catalog and any stored
\* collection, neither of which changes while it runs.
QuietInit ==
  /\ catalog \in [Genres -> Pages]
  /\ rpc = "idle"
  /\ userGenres = <<>>
  /\ genres = <<>>
  /\ recommendedMovies = <<>>
  /\ moviesPerGenre = InitialPerGenre
  /\ movies = <<>>
  /\ rresp = "none"
  /\ calls = 0
  /\ doc \in {NoDoc, save(<<>>), save(pushMovie(<<>>, 1, 1)),
              save(pushMovie(pushMovie(<<>>, 1, 1), 2, 2))}
  /\ pc = [p \in Procs |-> "idle"]
  /\ req = [p \in Procs |-> NoReq]
  /\ snap = [p \in Procs |-> <<>>]
  /\ movieCol = [p \in Procs |-> <<>>]
  /\ resp = [op |-> "none", id |-> 0, code |-> "none"]
  /\ started = 0
  /\ overwrote = [stale |-> FALSE, movies |-> <<>>]

QuietNext ==
  \/ \E raw \in GenreLists : RecStart(raw)
  \/ RecFetch
  \/ RecFilter

QuietSpec == QuietInit /\ [][QuietNext]_vars

\* ---------------------------------------------------------------- claims
UniqueTitles(list) ==
  \A i, j \in 1..Len(list) : list[i].title = list[j].title => i = j

HasTitle(list, title) == \E i \in 1..Len(list) : list[i].title = title
HasId(list, id) == \E i \in 1..Len(list) : list[i].id = id
FirstWithId(list, id) ==
  CHOOSE i \in 1..Len(list) :
    list[i].id = id /\ \A j \in 1..(i - 1) : list[j].id # id
Without(list, i) ==
  SubSeq(list, 1, i - 1) \o SubSeq(list, i + 1, Len(list))
SaveStep(p) == pc[p] # "idle" /\ pc'[p] = "idle"

\* C1: in every reachable state no two movies of the user's stored collection
\* share a title, whatever the interleaving of the find and save steps of the
\* user's add, update and delete requests.
C1_UniqueTitles == UniqueTitles(doc.movies)

\* C1 witness: two movies are stored after a save that replaced a document its
\* request had not read (the requests did interleave).
C1_Witness == Len(doc.movies) = 2 /\ overwrote.stale

\* C2: an add whose title is already in the stored collection answers 400,
\* schedules no save and leaves the stored document as it was.
C2_DuplicateAddConflict ==
  [][\A p \in Procs, id \in Ids, t \in Titles :
       (AddFind(p, id, t) /\ HasTitle(doc.movies, t))
         => /\ resp' = [op |-> "add", id |-> id, code |-> "400"]
            /\ pc'[p] = "idle"
            /\ doc' = doc]_vars

\* C2 witness: an add was answered 400 while the collection holds a movie.
C2_Witness == resp.op = "add" /\ resp.code = "400" /\ Len(doc.movies) > 0

\* The last response is the 200 of a delete of id, and no request is in
\* flight: a delete received now comes directly after that one.
JustDeleted(id) ==
  /\ resp = [op |-> "delete", id |-> id, code |-> "200"]
  /\ \A q \in Procs : pc[q] = "idle"

\* C3: a delete of an id present in the collection succeeds, a second delete of
\* the same id directly after it answers 404, and a successful delete removes
\* exactly one movie, whose id is the requested one, from the document it read,
\* keeping the other movies, their statuses and their order.
C3_RemoveTwice ==
  [][\A p \in Procs :
       /\ \A id \in Ids :
            /\ (DelFind(p, id) /\ HasId(doc.movies, id)) => pc'[p] = "del_save"
            /\ (DelFind(p, id) /\ JustDeleted(id))
                 => resp' = [op |-> "delete", id |-> id, code |-> "404"]
       /\ (SaveStep(p) /\ req[p].op = "delete")
            => /\ resp' = [op |-> "delete", id |-> req[p].id, code |-> "200"]
               /\ \E i \in 1..Len(snap[p]) :
                    /\ snap[p][i].id = req[p].id
                    /\ doc'.movies = Without(snap[p], i)]_vars

\* C8: an update whose id matches no movie changes nothing: it answers 404 (or
\* fails when the user has no collection document), schedules no save, creates no
\* document, and a get returns the same movies as before.
C8_UpdateMissingNotFound ==
  [][\A p \in Procs, id \in Ids, s \in Statuses :
       (UpdFind(p, id, s) /\ ~HasId(doc.movies, id))
         => /\ resp' = [op |-> "update", id |-> id,
                       code |-> IF doc.exists THEN "404" ELSE "error"]
            /\ pc'[p] = "idle"
            /\ doc' = doc
            /\ getMovieCollectionForUser(doc') = getMovieCollectionForUser(doc)]_vars

\* C8 witness: an update was answered 404 on a collection that holds a movie
\* with a changed status (so the statuses it must keep are not all the default).
C8_Witness ==
  /\ resp.op = "update" /\ resp.code = "404"
  /\ \E i \in 1..Len(doc.movies) : doc.movies[i].status # DefaultStatus

\* What request r makes of the movies it read.
ExpectedMovies(r, read) ==
  CASE r.op = "add" ->
         read \o <<[id |-> r.id, title |-> r.title, status |-> DefaultStatus]>>
    [] r.op = "update" ->
         [k \in 1..Len(read) |->
            IF k = FirstWithId(read, r.id)
            THEN [id |-> read[k].id, title |-> read[k].title, status |-> r.status]
            ELSE read[k]]
    [] r.op = "delete" -> Without(read, FirstWithId(read, r.id))

\* C9: every save succeeds and stores exactly what its request made of the
\* document it read, whatever was saved in between: the last writer wins and
\* what another request saved after that read is lost.
C9_LastWriterWins ==
  [][\A p \in Procs :
       SaveStep(p) => /\ resp'.code = "200"
                      /\ doc' = [exists |-> TRUE,
                                 movies |-> ExpectedMovies(req[p], snap[p])]]_vars

\* C9 witness: a lost update. Two requests were sent, both adds answered 200;
\* the second save replaced a document its request had not read, and a title
\* the first one had saved is no longer stored.
C9_Witness ==
  /\ started = 2 /\ resp.op = "add" /\ resp.code = "200"
  /\ \A p \in Procs : pc[p] = "idle"
  /\ overwrote.stale
  /\ \E i \in 1..Len(overwrote.movies) :
       ~HasTitle(doc.movies, overwrote.movies[i].title)

NoDuplicates(s) == \A i, j \in 1..Len(s) : s[i] = s[j] => i = j
Responds == rpc # "done" /\ rpc' = "done"

\* C4: at the moment a recommendation is answered 200, no returned movie's id
\* is in the user's stored collection, also when adds of the user ran between
\* the iterations of the loop.
C4_NeverReturnsSaved ==
  [][(Responds /\ rresp' = "200")
       => \A i \in 1..Len(recommendedMovies') :
            ~HasId(doc'.movies, recommendedMovies'[i])]_vars

\* C5: a recommendation answered 200 returns at most 20 movies and no id twice.
C5_BoundedNoDuplicates ==
  (rpc = "done" /\ rresp = "200")
    => Len(recommendedMovies) <= maxMovies /\ NoDuplicates(recommendedMovies)

\* C6: when the user's genre list is empty once its falsy entries are dropped,
\* the request issues no discovery call and is answered 400 (no movies found).
C6_EmptyGenresEmptyResult ==
  (rpc = "done" /\ filterBoolean(userGenres) = <<>>)
    => rresp = "400" /\ calls = 0

\* C7: with exactly one preferred genre, an empty collection and a catalog that
\* keeps returning the same 10 distinct movies for it, the request is answered
\* 200 with exactly those 10 movies.
C7_OneGenreTenMovies ==
  (/\ rpc = "done"
   /\ Len(filterBoolean(userGenres)) = 1
   /\ doc.movies = <<>>
   /\ catalog[filterBoolean(userGenres)[1]] = Page(1, 10))
    => rresp = "200" /\ recommendedMovies = Page(1, 10)

\* C10: the request always responds. It awaits only while fewer than 20 movies
\* are accumulated and the genre list has fewer than 20 entries; an iteration
\* either lengthens the accumulated list, or leaves it and appends one entry
\* to the genre list and sets moviesPerGenre to 5; moviesPerGenre is 5 or 10.
C10_AlwaysResponds ==
  /\ [](moviesPerGenre \in {5, 10})
  /\ [](rpc \in {"await", "find"} => loopCondition(recommendedMovies, genres))
  /\ [][(rpc = "find" /\ rpc' # "find")
          => \/ /\ Len(recommendedMovies') > Len(recommendedMovies)
                /\ genres' = genres
             \/ /\ recommendedMovies' = recommendedMovies
                /\ Len(genres') = Len(genres) + 1
                /\ moviesPerGenre' = 5]_vars
  /\ (rpc \in {"await", "find"} ~> rpc = "done")

\* C10 witness: a request has responded after an iteration that accumulated
\* movies and one that found none and widened the genre list.
C10_Witness ==
  /\ rpc = "done"
  /\ Len(recommendedMovies) > 0
  /\ Len(genres) > Len(filterBoolean(userGenres))
====
